---- MODULE Spec2Model ----
(***************************************************************************)
(* Net2Net weight transformations of examples/mnist_net2net.py:            *)
(* wider2net_fc, wider2net_conv2d, deeper2net_conv2d and copy_weights.     *)
(*                                                                         *)
(* Tensors are nested sequences (axis 0 outermost, 1-based), their entries *)
(* exact rationals <<numerator, denominator>> in lowest terms.  Unit       *)
(* indices drawn by the random source are 0-based, as in the source.       *)
(***************************************************************************)
EXTENDS Integers, Sequences, FiniteSets, TLC

VARIABLES
    layout,         \* "fc" or "conv2d": the tensor layout of the layer pair
    teacher_w1,     \* weight of the layer to widen
    teacher_b1,     \* bias of the layer to widen
    teacher_w2,     \* weight of the next connected layer
    rng,            \* the process-wide random source (np.random)
    ret,            \* outcome of the last call
    prev,           \* outcome of the call before it (history, SpecDet only)
    teacher_w,      \* argument of deeper2net_conv2d
    teacher_model,  \* layer name -> weights of the teacher model
    student_model   \* layer name -> weights of the student model

vars == <<layout, teacher_w1, teacher_b1, teacher_w2, rng, ret, prev,
          teacher_w, teacher_model, student_model>>

----------------------------------------------------------------------------
(* Bounds of the model *)

MaxWidth == 3      \* largest teacher width (output units of layer 1)
MaxNew == 2        \* largest number of units a widen call adds
MaxKernel == 4     \* largest kernel side given to deeper2net_conv2d
MaxNames == 4      \* longest layer_names list given to copy_weights

----------------------------------------------------------------------------
(* Exact rational arithmetic *)

RECURSIVE GCD(_, _)
GCD(a, b) == IF b = 0 THEN a ELSE GCD(b, a % b)

Abs(n) == IF n < 0 THEN -n ELSE n

\* the rational n/d (d > 0) in lowest terms
Q(n, d) == LET g == GCD(Abs(n), d) IN <<n \div g, d \div g>>

RAdd(p, q) == Q(p[1] * q[2] + q[1] * p[2], p[2] * q[2])
RMul(p, q) == Q(p[1] * q[1], p[2] * q[2])
RDiv(p, k) == Q(p[1], p[2] * k)
Zero == Q(0, 1)
One == Q(1, 1)

RECURSIVE RSum(_)
RSum(s) == IF s = << >> THEN Zero ELSE RAdd(s[1], RSum(Tail(s)))

----------------------------------------------------------------------------
(* numpy array operations used by the source *)

\* a take that returns the selected units in reverse draw order
TakeAxis0_reversed(t, index) ==
    [j \in 1..Len(index) |-> t[index[Len(index) + 1 - j] + 1]]

\* t[index] along axis 0 (fancy indexing copies)
TakeAxis0(t, index) == [j \in 1..Len(index) |-> t[index[j] + 1]]

\* t[:, index] along axis 1
TakeAxis1(t, index) == [i \in 1..Len(t) |-> TakeAxis0(t[i], index)]

\* np.concatenate((a, b), axis = 0): a freshly allocated array
Concat0(a, b) == a \o b

\* np.concatenate((a, b), axis = 1)
Concat1(a, b) == [i \in 1..Len(a) |-> a[i] \o b[i]]

\* np.bincount(index): occurrences of each value 0..max(index)
SeqMax(s) == CHOOSE m \in {s[j] : j \in 1..Len(s)} : \A j \in 1..Len(s) : s[j] <= m
bincount(index) ==
    [v \in 1..(SeqMax(index) + 1) |-> Cardinality({j \in 1..Len(index) : index[j] = v - 1})]

\* the replication factor without the original unit: np.bincount(index)[index]
Factors_counts(index) == [j \in 1..Len(index) |-> bincount(index)[index[j] + 1]]

\* np.bincount(index)[index] + 1.
Factors(index) == [j \in 1..Len(index) |-> bincount(index)[index[j] + 1] + 1]

\* elementwise division of a vector / of a kernel plane by a scalar
DivRow(row, k) == [o \in 1..Len(row) |-> RDiv(row[o], k)]
DivPlane(p, k) == [y \in 1..Len(p) |-> DivRow(p[y], k)]

\* a[index] = b along axis 0: element-by-element stores in order, so that the
\* last store to a repeated index stays
RECURSIVE StoreAxis0(_, _, _, _)
StoreAxis0(a, index, b, j) ==
    IF j > Len(index) THEN a
    ELSE StoreAxis0([a EXCEPT ![index[j] + 1] = b[j]], index, b, j + 1)

\* a[:, index] = b along axis 1
StoreAxis1(a, index, b) == [f \in 1..Len(a) |-> StoreAxis0(a[f], index, b[f], 1)]

----------------------------------------------------------------------------
(* The random source: its state is the stream of raw draws still to come.  *)
(* The stream is periodic; a draw takes its head and rotates it.            *)

StreamLen == MaxNew
RawValues == 0..(MaxWidth - 1)
Streams == [1..StreamLen -> RawValues]

\* the i-th raw draw from state g (i = 0 is the next one)
Raw(g, i) == g[(i % Len(g)) + 1]
\* the state after k draws
Advance(g, k) == [j \in 1..Len(g) |-> g[((j - 1 + k) % Len(g)) + 1]]

\* draws from a second generator that np.random.seed does not reset: once a
\* call has been made its draws are one step further on
randint_unseeded(g, high, n) ==
    [j \in 1..n |-> (Raw(g, j - 1) + (IF ret.fn = "none" THEN 0 ELSE 1)) % high]

\* np.random.randint(high, size = n): n draws, each in [0, high)
randint(g, high, n) == [j \in 1..n |-> Raw(g, j - 1) % high]

\* one np.random.normal(0, 0.1) draw: some value scattered around 0
NormalValue(raw) == Q(raw - 1, 10)

\* np.random.normal(0, 0.1, size = (rows, cols))
normal2(g, rows, cols) ==
    [i \in 1..rows |-> [j \in 1..cols |-> NormalValue(Raw(g, (i - 1) * cols + (j - 1)))]]

\* np.ones(n) * 0.1
PadBias(n) == [j \in 1..n |-> Q(1, 10)]

----------------------------------------------------------------------------
(* Outcomes *)

NoCall == [fn |-> "none"]
NoError == [exc |-> "none", check |-> "none"]
\* the three assert statements and the raise of the widen functions
AssertConnected == [exc |-> "AssertionError", check |-> "connected"]
AssertBias == [exc |-> "AssertionError", check |-> "bias"]
AssertWidth == [exc |-> "AssertionError", check |-> "width"]
RaiseInit == [exc |-> "ValueError", check |-> "init"]

Failed(e, tw1, tb1, tw2, g) ==
    [err |-> e, index |-> << >>,
     student_w1 |-> << >>, student_b1 |-> << >>, student_w2 |-> << >>,
     teacher_w1 |-> tw1, teacher_b1 |-> tb1, teacher_w2 |-> tw2, rng |-> g]

----------------------------------------------------------------------------
(* wider2net_fc *)

\* the overwrite left out
StoreRowsFc_skipped(mem, index, new_w2) == mem

\* the overwrite on a student_w2 that shares its first rows with teacher_w2
StoreRowsFc_inplace(mem, index, new_w2) ==
    [mem EXCEPT !.student_w2 = StoreAxis0(mem.student_w2, index, new_w2, 1),
                !.teacher_w2 = StoreAxis0(mem.teacher_w2, index, new_w2, 1)]

\* student_w2[index, :] = new_w2, as a change of the arrays the function holds
StoreRowsFc(mem, index, new_w2) ==
    [mem EXCEPT !.student_w2 = StoreAxis0(mem.student_w2, index, new_w2, 1)]

\* the init == 'net2wider' branch and the concatenations after it
Net2WiderFc(tw1, tb1, tw2, n, g) ==
    LET index == randint(g, Len(tw1[1]), n)
        factors == Factors(index)
        new_w1 == TakeAxis1(tw1, index)
        new_b1 == TakeAxis0(tb1, index)
        new_w2 == [j \in 1..n |-> DivRow(tw2[index[j] + 1], factors[j])]
        mem == [teacher_w1 |-> tw1, teacher_b1 |-> tb1, teacher_w2 |-> tw2,
                student_w1 |-> Concat1(tw1, new_w1),
                student_w2 |-> Concat0(tw2, new_w2),
                student_b1 |-> << >>]
        mem2 == StoreRowsFc(mem, index, new_w2)
    IN  [err |-> NoError, index |-> index,
         student_w1 |-> mem2.student_w1,
         student_b1 |-> Concat0(mem2.teacher_b1, new_b1),
         student_w2 |-> mem2.student_w2,
         teacher_w1 |-> mem2.teacher_w1, teacher_b1 |-> mem2.teacher_b1,
         teacher_w2 |-> mem2.teacher_w2,
         rng |-> Advance(g, n)]

\* random-pad with the size of new_w2 transposed: (teacher_w2.shape[1], n)
RandomPadFc_transposed(tw1, tb1, tw2, n, g) ==
    LET nin == Len(tw1)
        nout == Len(tw2[1])
        new_w1 == normal2(g, nin, n)
        g1 == Advance(g, nin * n)
        new_w2 == normal2(g1, nout, n)
    IN  [err |-> NoError, index |-> << >>,
         student_w1 |-> Concat1(tw1, new_w1),
         student_b1 |-> Concat0(tb1, PadBias(n)),
         student_w2 |-> Concat0(tw2, new_w2),
         teacher_w1 |-> tw1, teacher_b1 |-> tb1, teacher_w2 |-> tw2,
         rng |-> Advance(g1, n * nout)]

\* the init == 'random-pad' branch and the concatenations after it
RandomPadFc(tw1, tb1, tw2, n, g) ==
    LET nin == Len(tw1)
        nout == Len(tw2[1])
        new_w1 == normal2(g, nin, n)
        g1 == Advance(g, nin * n)
        new_b1 == PadBias(n)
        new_w2 == normal2(g1, n, nout)
        g2 == Advance(g1, n * nout)
    IN  [err |-> NoError, index |-> << >>,
         student_w1 |-> Concat1(tw1, new_w1),
         student_b1 |-> Concat0(tb1, new_b1),
         student_w2 |-> Concat0(tw2, new_w2),
         teacher_w1 |-> tw1, teacher_b1 |-> tb1, teacher_w2 |-> tw2,
         rng |-> g2]

\* the strategy looked at before the asserts
wider2net_fc_initfirst(tw1, tb1, tw2, new_width, init, g) ==
    IF init \notin {"random-pad", "net2wider"} THEN Failed(RaiseInit, tw1, tb1, tw2, g)
    ELSE IF Len(tw1[1]) # Len(tw2) THEN Failed(AssertConnected, tw1, tb1, tw2, g)
    ELSE IF Len(tw1[1]) # Len(tb1) THEN Failed(AssertBias, tw1, tb1, tw2, g)
    ELSE IF ~(new_width > Len(tw1[1])) THEN Failed(AssertWidth, tw1, tb1, tw2, g)
    ELSE LET n == new_width - Len(tw1[1])
         IN  IF init = "random-pad" THEN RandomPadFc(tw1, tb1, tw2, n, g)
             ELSE Net2WiderFc(tw1, tb1, tw2, n, g)

wider2net_fc(tw1, tb1, tw2, new_width, init, g) ==
    IF Len(tw1[1]) # Len(tw2) THEN Failed(AssertConnected, tw1, tb1, tw2, g)
    ELSE IF Len(tw1[1]) # Len(tb1) THEN Failed(AssertBias, tw1, tb1, tw2, g)
    ELSE IF ~(new_width > Len(tw1[1])) THEN Failed(AssertWidth, tw1, tb1, tw2, g)
    ELSE LET n == new_width - Len(tw1[1])
         IN  IF init = "random-pad" THEN RandomPadFc(tw1, tb1, tw2, n, g)
             ELSE IF init = "net2wider" THEN Net2WiderFc(tw1, tb1, tw2, n, g)
             ELSE Failed(RaiseInit, tw1, tb1, tw2, g)

----------------------------------------------------------------------------
(* wider2net_conv2d *)

\* np.random.normal(0, 0.1, size = (d0, d1, d2, d3)), filled in C order
normal4(g, d0, d1, d2, d3) ==
    [a \in 1..d0 |-> [b \in 1..d1 |-> [y \in 1..d2 |-> [x \in 1..d3 |->
        NormalValue(Raw(g, (((a - 1) * d1 + (b - 1)) * d2 + (y - 1)) * d3 + (x - 1)))]]]]

\* student_w2[:, index, :, :] = new_w2, as a change of the arrays the function holds
StoreColsConv2d(mem, index, new_w2) ==
    [mem EXCEPT !.student_w2 = StoreAxis1(mem.student_w2, index, new_w2)]

\* the init == 'net2wider' branch and the concatenations after it
Net2WiderConv2d(tw1, tb1, tw2, n, g) ==
    LET index == randint(g, Len(tw1), n)
        factors == Factors(index)
        new_w1 == TakeAxis0(tw1, index)
        new_b1 == TakeAxis0(tb1, index)
        new_w2 == [f \in 1..Len(tw2) |->
                      [j \in 1..n |-> DivPlane(tw2[f][index[j] + 1], factors[j])]]
        mem == [teacher_w1 |-> tw1, teacher_b1 |-> tb1, teacher_w2 |-> tw2,
                student_w1 |-> Concat0(tw1, new_w1),
                student_w2 |-> Concat1(tw2, new_w2),
                student_b1 |-> << >>]
        mem2 == StoreColsConv2d(mem, index, new_w2)
    IN  [err |-> NoError, index |-> index,
         student_w1 |-> mem2.student_w1,
         student_b1 |-> Concat0(mem2.teacher_b1, new_b1),
         student_w2 |-> mem2.student_w2,
         teacher_w1 |-> mem2.teacher_w1, teacher_b1 |-> mem2.teacher_b1,
         teacher_w2 |-> mem2.teacher_w2,
         rng |-> Advance(g, n)]

\* the init == 'random-pad' branch and the concatenations after it
RandomPadConv2d(tw1, tb1, tw2, n, g) ==
    LET c1 == Len(tw1[1])
        h1 == Len(tw1[1][1])
        k1 == Len(tw1[1][1][1])
        f2 == Len(tw2)
        h2 == Len(tw2[1][1])
        k2 == Len(tw2[1][1][1])
        new_w1 == normal4(g, n, c1, h1, k1)
        g1 == Advance(g, n * c1 * h1 * k1)
        new_b1 == PadBias(n)
        new_w2 == normal4(g1, f2, n, h2, k2)
        g2 == Advance(g1, f2 * n * h2 * k2)
    IN  [err |-> NoError, index |-> << >>,
         student_w1 |-> Concat0(tw1, new_w1),
         student_b1 |-> Concat0(tb1, new_b1),
         student_w2 |-> Concat1(tw2, new_w2),
         teacher_w1 |-> tw1, teacher_b1 |-> tb1, teacher_w2 |-> tw2,
         rng |-> g2]

wider2net_conv2d(tw1, tb1, tw2, new_width, init, g) ==
    IF Len(tw1) # Len(tw2[1]) THEN Failed(AssertConnected, tw1, tb1, tw2, g)
    ELSE IF Len(tw1) # Len(tb1) THEN Failed(AssertBias, tw1, tb1, tw2, g)
    ELSE IF ~(new_width > Len(tw1)) THEN Failed(AssertWidth, tw1, tb1, tw2, g)
    ELSE LET n == new_width - Len(tw1)
         IN  IF init = "random-pad" THEN RandomPadConv2d(tw1, tb1, tw2, n, g)
             ELSE IF init = "net2wider" THEN Net2WiderConv2d(tw1, tb1, tw2, n, g)
             ELSE Failed(RaiseInit, tw1, tb1, tw2, g)

----------------------------------------------------------------------------
(* The layer pairs a caller hands to the widen functions *)

Sign(k) == IF k % 2 = 0 THEN 1 ELSE -1

\* fully connected: w1 of shape (nin, old), b1 of length nb, w2 of shape (rows2, nout)
FcW1(nin, old) == [i \in 1..nin |-> [j \in 1..old |-> Q(2 * j - 3 * i + 1, 1)]]
FcB1(nb) == [j \in 1..nb |-> Q(j - 2, 2)]
FcW2(rows2, nout) == [k \in 1..rows2 |-> [o \in 1..nout |-> Q(Sign(k + o) * (k + 2 * o), 1)]]

FcGeometries == {[nin |-> 1, nout |-> 1], [nin |-> 2, nout |-> 2]}
\* by how much the bias length / the next layer's input count misses the width
Mismatch == {0, 1}
FcTeachers ==
    {[layout |-> "fc", w1 |-> FcW1(s.nin, old), b1 |-> FcB1(old + db),
      w2 |-> FcW2(old + d2, s.nout)] :
        s \in FcGeometries, old \in 1..MaxWidth, db \in Mismatch, d2 \in Mismatch}

\* convolutional: w1 of shape (old, c1, h1, k1), b1 of length nb,
\* w2 of shape (f2, c2, h2, k2)
ConvW1(old, c1, h1, k1) ==
    [f \in 1..old |-> [c \in 1..c1 |-> [y \in 1..h1 |-> [x \in 1..k1 |->
        Q(Sign(f + x) * (3 * f + c + 5 * y + 7 * x), 1)]]]]
ConvW2(f2, c2, h2, k2) ==
    [f \in 1..f2 |-> [c \in 1..c2 |-> [y \in 1..h2 |-> [x \in 1..k2 |->
        Q(Sign(c + y) * (2 * c + 7 * f + 3 * y + x), 1)]]]]

ConvGeometries ==
    {[c1 |-> 1, h1 |-> 1, k1 |-> 1, f2 |-> 1, h2 |-> 1, k2 |-> 1],
     [c1 |-> 2, h1 |-> 1, k1 |-> 2, f2 |-> 2, h2 |-> 2, k2 |-> 1]}
ConvTeachers ==
    {[layout |-> "conv2d", w1 |-> ConvW1(old, s.c1, s.h1, s.k1), b1 |-> FcB1(old + db),
      w2 |-> ConvW2(s.f2, old + d2, s.h2, s.k2)] :
        s \in ConvGeometries, old \in 1..MaxWidth, db \in Mismatch, d2 \in Mismatch}

Connected(t) ==
    /\ Len(t.b1) = (IF t.layout = "fc" THEN Len(t.w1[1]) ELSE Len(t.w1))
    /\ (IF t.layout = "fc" THEN Len(t.w2) = Len(t.w1[1]) ELSE Len(t.w2[1]) = Len(t.w1))

\* the init strings a caller may pass ("random-init" is make_deeper_student_model's)
Inits == {"random-pad", "net2wider", "random-init"}
Widths == 1..(MaxWidth + MaxNew)

----------------------------------------------------------------------------
(* State machine of the widen calls *)

OldWidth == IF layout = "fc" THEN Len(teacher_w1[1]) ELSE Len(teacher_w1)

InitWiden(teachers) ==
    /\ \E t \in teachers :
          /\ layout = t.layout
          /\ teacher_w1 = t.w1
          /\ teacher_b1 = t.b1
          /\ teacher_w2 = t.w2
    /\ rng \in Streams
    /\ ret = NoCall
    /\ prev = NoCall
    /\ teacher_w = << >>
    /\ teacher_model = << >>
    /\ student_model = << >>

Init == InitWiden(FcTeachers \cup ConvTeachers)

Outcome(fn, new_width, init, r) ==
    [fn |-> fn, new_width |-> new_width, init |-> init, rng_in |-> rng, rng_out |-> r.rng,
     err |-> r.err, index |-> r.index,
     student_w1 |-> r.student_w1, student_b1 |-> r.student_b1, student_w2 |-> r.student_w2]

\* one call student_w1, student_b1, student_w2 = wider2net_fc(...)
CallWiderFc(new_width, init) ==
    /\ layout = "fc"
    /\ new_width - OldWidth \in (-1)..MaxNew
    /\ LET r == wider2net_fc(teacher_w1, teacher_b1, teacher_w2, new_width, init, rng)
       IN  /\ teacher_w1' = r.teacher_w1
           /\ teacher_b1' = r.teacher_b1
           /\ teacher_w2' = r.teacher_w2
           /\ rng' = r.rng
           /\ ret' = Outcome("wider2net_fc", new_width, init, r)
    /\ UNCHANGED <<layout, teacher_w, teacher_model, student_model>>

\* one call student_w1, student_b1, student_w2 = wider2net_conv2d(...)
CallWiderConv2d(new_width, init) ==
    /\ layout = "conv2d"
    /\ new_width - OldWidth \in (-1)..MaxNew
    /\ LET r == wider2net_conv2d(teacher_w1, teacher_b1, teacher_w2, new_width, init, rng)
       IN  /\ teacher_w1' = r.teacher_w1
           /\ teacher_b1' = r.teacher_b1
           /\ teacher_w2' = r.teacher_w2
           /\ rng' = r.rng
           /\ ret' = Outcome("wider2net_conv2d", new_width, init, r)
    /\ UNCHANGED <<layout, teacher_w, teacher_model, student_model>>

WiderFc == \E nw \in Widths, init \in Inits : CallWiderFc(nw, init) /\ UNCHANGED prev

WiderConv2d == \E nw \in Widths, init \in Inits : CallWiderConv2d(nw, init) /\ UNCHANGED prev

Next == WiderFc \/ WiderConv2d

Spec == Init /\ [][Next]_vars

----------------------------------------------------------------------------
(* Repeated calls from a reseeded random source *)

\* the connected layer pairs of full width
DetTeachers ==
    {t \in FcTeachers \cup ConvTeachers : Connected(t) /\ Len(t.b1) = MaxWidth}

InitDet == InitWiden(DetTeachers)

WiderFcAgain ==
    /\ prev.fn = "none"
    /\ \E nw \in Widths, init \in Inits : CallWiderFc(nw, init)
    /\ prev' = ret

WiderConv2dAgain ==
    /\ prev.fn = "none"
    /\ \E nw \in Widths, init \in Inits : CallWiderConv2d(nw, init)
    /\ prev' = ret

\* np.random.seed(s) with the seed that gave the state the last call started in
Seed ==
    /\ ret.fn # "none"
    /\ rng' = ret.rng_in
    /\ UNCHANGED <<layout, teacher_w1, teacher_b1, teacher_w2, ret, prev,
                   teacher_w, teacher_model, student_model>>

NextDet == WiderFcAgain \/ WiderConv2dAgain \/ Seed

SpecDet == InitDet /\ [][NextDet]_vars

----------------------------------------------------------------------------
(* deeper2net_conv2d *)

Shape4(t) == <<Len(t), Len(t[1]), Len(t[1][1]), Len(t[1][1][1])>>

\* np.zeros((d0, d1, d2, d3))
zeros4(d0, d1, d2, d3) ==
    [a \in 1..d0 |-> [b \in 1..d1 |-> [y \in 1..d2 |-> [x \in 1..d3 |-> Zero]]]]

\* np.zeros(n)
zeros1(n) == [j \in 1..n |-> Zero]

\* for i in xrange(nb_filter): student_w[i, i, cy, cx] = 1.  (cy, cx 0-based)
RECURSIVE SetOnes(_, _, _, _)
SetOnes(student_w, i, cy, cx) ==
    IF i > Len(student_w) THEN student_w
    ELSE SetOnes([student_w EXCEPT ![i][i][cy + 1][cx + 1] = One], i + 1, cy, cx)

\* "nb_filter, nb_channel, w, h = teacher_w.shape": w is the size of axis 2 and
\* h the size of axis 3; (h - 1) / 2 is Python 2's integer division
deeper2net_conv2d(tw) ==
    LET nb_filter == Shape4(tw)[1]
        w == Shape4(tw)[3]
        h == Shape4(tw)[4]
        cy == (h - 1) \div 2
        cx == (w - 1) \div 2
    IN  IF cy >= w \/ cx >= h
        THEN [err |-> [exc |-> "IndexError", check |-> "bounds"],
              student_w |-> << >>, student_b |-> << >>]
        ELSE [err |-> NoError,
              student_w |-> SetOnes(zeros4(nb_filter, nb_filter, w, h), 1, cy, cx),
              student_b |-> zeros1(nb_filter)]

KernelSides == 1..MaxKernel
DeepenTeachers ==
    {ConvW1(f, c, kh, kw) : f \in 1..MaxWidth, c \in {1, 2}, kh \in KernelSides, kw \in KernelSides}

InitDeepen ==
    /\ teacher_w \in DeepenTeachers
    /\ layout = "conv2d"
    /\ teacher_w1 = << >>
    /\ teacher_b1 = << >>
    /\ teacher_w2 = << >>
    /\ rng = << >>
    /\ ret = NoCall
    /\ prev = NoCall
    /\ teacher_model = << >>
    /\ student_model = << >>

\* one call student_w, student_b = deeper2net_conv2d(teacher_w)
Deeper2NetConv2d ==
    /\ LET r == deeper2net_conv2d(teacher_w)
       IN  ret' = [fn |-> "deeper2net_conv2d", err |-> r.err,
                   student_w |-> r.student_w, student_b |-> r.student_b]
    /\ UNCHANGED <<layout, teacher_w1, teacher_b1, teacher_w2, rng, prev,
                   teacher_w, teacher_model, student_model>>

NextDeepen == Deeper2NetConv2d

SpecDeepen == InitDeepen /\ [][NextDeepen]_vars

----------------------------------------------------------------------------
(* copy_weights *)

\* the (weight, bias) pair of a layer, by where its values come from
Weights(origin, name) == [w |-> <<origin, name, "w">>, b |-> <<origin, name, "b">>]

\* the layers with weights that make_teacher_model adds
TeacherLayers == {"conv1", "conv2", "fc1", "fc2"}
TrainedTeacher == [name \in TeacherLayers |-> Weights("trained", name)]

\* the layers with weights that make_deeper_student_model adds, before the copy
StudentLayers == TeacherLayers \cup {"conv2-deeper", "fc1-deeper"}
DeeperStudent(init) ==
    [name \in StudentLayers |->
        IF init = "net2deeper" /\ name = "conv2-deeper" THEN Weights("deeper2net_conv2d", name)
        ELSE IF init = "net2deeper" /\ name = "fc1-deeper" THEN Weights("identity", name)
        ELSE Weights("default", name)]

\* every layer the teacher has is copied, whatever the name asked for
SetLayer_all(models, name, weights) ==
    [models EXCEPT !.student =
        [l \in DOMAIN models.student |->
            IF l \in DOMAIN models.teacher THEN models.teacher[l] ELSE models.student[l]]]

\* student_model.get_layer(name = name).set_weights(weights)
SetLayer(models, name, weights) ==
    [models EXCEPT !.student = [models.student EXCEPT ![name] = weights]]

\* for name in layer_names: ...
RECURSIVE copy_weights(_, _, _)
copy_weights(teacher, student, layer_names) ==
    IF layer_names = << >> THEN [teacher |-> teacher, student |-> student]
    ELSE LET weights == teacher[Head(layer_names)]
             m == SetLayer([teacher |-> teacher, student |-> student],
                           Head(layer_names), weights)
         IN  copy_weights(m.teacher, m.student, Tail(layer_names))

NameLists == UNION {[1..k -> TeacherLayers] : k \in 0..MaxNames}

InitCopy ==
    /\ teacher_model = TrainedTeacher
    /\ student_model \in {DeeperStudent("net2deeper"), DeeperStudent("random-init")}
    /\ layout = "fc"
    /\ teacher_w1 = << >>
    /\ teacher_b1 = << >>
    /\ teacher_w2 = << >>
    /\ teacher_w = << >>
    /\ rng = << >>
    /\ ret = NoCall
    /\ prev = NoCall

\* the one call copy_weights(teacher_model, model, layer_names = names) that
\* make_deeper_student_model makes on the model it has built
CopyWeights ==
    /\ ret.fn = "none"
    /\ \E names \in NameLists :
          LET r == copy_weights(teacher_model, student_model, names)
          IN  /\ teacher_model' = r.teacher
              /\ student_model' = r.student
              /\ ret' = [fn |-> "copy_weights", layer_names |-> names,
                         teacher_in |-> teacher_model, student_in |-> student_model]
    /\ UNCHANGED <<layout, teacher_w1, teacher_b1, teacher_w2, rng, prev, teacher_w>>

NextCopy == CopyWeights

SpecCopy == InitCopy /\ [][NextCopy]_vars

----------------------------------------------------------------------------
(* The two-layer network the widened pair sits in: Dense(activation) then Dense *)

Relu(q) == IF q[1] < 0 THEN Zero ELSE q
Activation(a, q) ==
    CASE a = "linear" -> q
      [] a = "relu" -> Relu(q)
      [] a = "square" -> RMul(q, q)

\* act(x * w + b) for a fully connected layer with weight w of shape (nin, nout)
Dense(x, w, b, a) ==
    [j \in 1..Len(b) |->
        Activation(a, RAdd(RSum([i \in 1..Len(x) |-> RMul(x[i], w[i][j])]), b[j]))]

\* act(x * w1 + b1) * w2
Forward(x, w1, b1, w2, a) ==
    LET hidden == Dense(x, w1, b1, a)
    IN  [o \in 1..Len(w2[1]) |-> RSum([j \in 1..Len(hidden) |-> RMul(hidden[j], w2[j][o])])]

----------------------------------------------------------------------------
(* Vocabulary of the properties *)

Activations == {"linear", "relu", "square"}
InputValues == {Q(-1, 1), Q(1, 2), Q(2, 1)}
InputVectors(nin) == [1..nin -> InputValues]

WidenCall == ret.fn \in {"wider2net_fc", "wider2net_conv2d"}
Returned == WidenCall /\ ret.err = NoError
Net2WiderReturned == Returned /\ ret.init = "net2wider"
NoTensors == ret.student_w1 = << >> /\ ret.student_b1 = << >> /\ ret.student_w2 = << >>

Occurrences(index, k) == Cardinality({j \in 1..Len(index) : index[j] = k})
RepeatedDraw(index) == \E i, j \in 1..Len(index) : i # j /\ index[i] = index[j]

\* positions (1-based) of unit k and of its replicas in the widened layer
Positions(index, old, k) ==
    <<k + 1>> \o SelectSeq([j \in 1..Len(index) |-> old + j], LAMBDA u : index[u - old] = k)

\* the downstream slice of unit position u: a row of an fc weight, one kernel
\* plane per filter of a conv weight
Slice(w2, u) == IF layout = "fc" THEN <<<<w2[u]>>>> ELSE [f \in 1..Len(w2) |-> w2[f][u]]

DivSlice(s, k) == [f \in 1..Len(s) |-> DivPlane(s[f], k)]

SumSlices(w2, pos) ==
    LET first == Slice(w2, pos[1])
    IN  [f \in 1..Len(first) |-> [y \in 1..Len(first[f]) |-> [x \in 1..Len(first[f][y]) |->
            RSum([i \in 1..Len(pos) |-> Slice(w2, pos[i])[f][y][x]])]]]

IsMatrix(m, rows, cols) == Len(m) = rows /\ \A i \in 1..rows : Len(m[i]) = cols
IsTensor4(t, d0, d1, d2, d3) ==
    /\ Len(t) = d0
    /\ \A a \in 1..d0 :
          /\ Len(t[a]) = d1
          /\ \A b \in 1..d1 : IsMatrix(t[a][b], d2, d3)

----------------------------------------------------------------------------
(* C1: function preservation of net2wider, fully connected layout: whenever *)
(* wider2net_fc(..., 'net2wider') returns, act(x*student_w1 + student_b1) *  *)
(* student_w2 equals act(x*teacher_w1 + teacher_b1) * teacher_w2 for every   *)
(* input vector x and every elementwise activation act, exactly.             *)
C1_FunctionPreserved ==
    (ret.fn = "wider2net_fc" /\ Net2WiderReturned) =>
        \A x \in InputVectors(Len(teacher_w1)), a \in Activations :
            Forward(x, ret.student_w1, ret.student_b1, ret.student_w2, a)
                = Forward(x, teacher_w1, teacher_b1, teacher_w2, a)

C1_Witness ==
    /\ ret.fn = "wider2net_fc"
    /\ Net2WiderReturned
    /\ RepeatedDraw(ret.index)
    /\ Len(teacher_w1) = 2
    /\ OldWidth = MaxWidth

(* C2: replication invariant of net2wider, both layouts: for every original  *)
(* unit k drawn m >= 0 times, the original downstream slice k of the         *)
(* returned layer-2 weight and each of the m replica slices hold the         *)
(* teacher's slice k divided by m + 1, and these m + 1 slices sum to the     *)
(* teacher's slice k.                                                        *)
C2_Replication ==
    Net2WiderReturned =>
        \A k \in 0..(OldWidth - 1) :
            LET pos == Positions(ret.index, OldWidth, k)
                m == Occurrences(ret.index, k)
            IN  /\ Len(pos) = m + 1
                /\ \A i \in 1..Len(pos) :
                      Slice(ret.student_w2, pos[i]) = DivSlice(Slice(teacher_w2, k + 1), m + 1)
                /\ SumSlices(ret.student_w2, pos) = Slice(teacher_w2, k + 1)

C2_Witness ==
    /\ Net2WiderReturned
    /\ ret.fn = "wider2net_conv2d"
    /\ Len(ret.index) = 2
    /\ ret.index[1] = ret.index[2]
    /\ OldWidth >= 2

(* C3: shape invariant of widen, both layouts and both strategies: whenever  *)
(* a widen call returns, layer 1's output-unit dimension, the bias length    *)
(* and layer 2's input-unit dimension are new_width, and every other         *)
(* dimension is the teacher's.                                               *)
C3_Shapes ==
    Returned =>
        /\ Len(ret.student_b1) = ret.new_width
        /\ IF layout = "fc"
           THEN /\ IsMatrix(ret.student_w1, Len(teacher_w1), ret.new_width)
                /\ IsMatrix(ret.student_w2, ret.new_width, Len(teacher_w2[1]))
           ELSE /\ IsTensor4(ret.student_w1, ret.new_width, Shape4(teacher_w1)[2],
                             Shape4(teacher_w1)[3], Shape4(teacher_w1)[4])
                /\ IsTensor4(ret.student_w2, Shape4(teacher_w2)[1], ret.new_width,
                             Shape4(teacher_w2)[3], Shape4(teacher_w2)[4])

C3_Witness ==
    /\ Returned
    /\ ret.init = "random-pad"
    /\ ret.fn = "wider2net_fc"
    /\ ret.new_width = OldWidth + 2
    /\ Len(teacher_w2[1]) = 1

(* C6 as stated: every widen call with an unrecognised strategy fails with   *)
(* the strategy error, every widen call with new_width not above the current *)
(* width fails with the width error, and a failed call returns no tensors.   *)
C6_AsStated ==
    WidenCall =>
        /\ ret.init \notin {"random-pad", "net2wider"} => ret.err = RaiseInit
        /\ ret.new_width <= OldWidth => ret.err = AssertWidth
        /\ ret.err # NoError => NoTensors

(* C6 as amended: a widen call fails with the first violated check in the    *)
(* order connected shapes, bias length, new_width > width, strategy; so the  *)
(* width error needs matching shapes and the strategy error needs matching   *)
(* shapes and a valid width.  The strategy error is a ValueError, the other  *)
(* three are AssertionErrors; a failed call returns no tensors and draws     *)
(* nothing from the random source.                                           *)
C6_ErrorPrecedence ==
    WidenCall =>
        LET width2 == IF layout = "fc" THEN Len(teacher_w2) ELSE Len(teacher_w2[1])
        IN  /\ ret.err =
                  IF OldWidth # width2 THEN [exc |-> "AssertionError", check |-> "connected"]
                  ELSE IF OldWidth # Len(teacher_b1)
                       THEN [exc |-> "AssertionError", check |-> "bias"]
                  ELSE IF ret.new_width <= OldWidth
                       THEN [exc |-> "AssertionError", check |-> "width"]
                  ELSE IF ret.init \notin {"random-pad", "net2wider"}
                       THEN [exc |-> "ValueError", check |-> "init"]
                  ELSE [exc |-> "none", check |-> "none"]
            /\ ret.err # NoError => NoTensors /\ ret.rng_out = ret.rng_in

C6_Witness ==
    /\ ret.fn = "wider2net_fc"
    /\ ret.err = AssertWidth
    /\ ret.init \notin {"random-pad", "net2wider"}

(* C7: widen never mutates its inputs: across every call of wider2net_fc or  *)
(* wider2net_conv2d, failed or not, teacher_w1, teacher_b1 and teacher_w2    *)
(* keep their values.                                                        *)
C7_InputsKept ==
    [][teacher_w1' = teacher_w1 /\ teacher_b1' = teacher_b1 /\ teacher_w2' = teacher_w2]_vars

C7_Witness ==
    /\ ret.fn = "wider2net_fc"
    /\ Net2WiderReturned
    /\ RepeatedDraw(ret.index)
    /\ ret.student_w2[ret.index[1] + 1] # teacher_w2[ret.index[1] + 1]

(* C8: layer-1 layout after net2wider, both layouts: the returned layer-1    *)
(* weight and bias hold the teacher's units at positions [0, old) and at     *)
(* position old + j a copy of teacher unit index[j], in draw order.          *)
C8_Layer1Layout ==
    Net2WiderReturned =>
        LET old == OldWidth
            src(u) == IF u <= old THEN u ELSE ret.index[u - old] + 1
        IN  /\ Len(ret.index) = ret.new_width - old
            /\ \A j \in 1..Len(ret.index) : ret.index[j] \in 0..(old - 1)
            /\ Len(ret.student_b1) = ret.new_width
            /\ \A u \in 1..ret.new_width : ret.student_b1[u] = teacher_b1[src(u)]
            /\ IF layout = "fc"
               THEN \A i \in 1..Len(teacher_w1) :
                       /\ Len(ret.student_w1[i]) = ret.new_width
                       /\ \A u \in 1..ret.new_width :
                             ret.student_w1[i][u] = teacher_w1[i][src(u)]
               ELSE /\ Len(ret.student_w1) = ret.new_width
                    /\ \A u \in 1..ret.new_width : ret.student_w1[u] = teacher_w1[src(u)]

C8_Witness ==
    /\ Net2WiderReturned
    /\ Len(ret.index) = 2
    /\ ret.index[1] > ret.index[2]

----------------------------------------------------------------------------
----------------------------------------------------------------------------
(* C4 as stated: for a weight of shape (units, units_in, h, w) with h and w  *)
(* odd, square or not, deeper2net_conv2d returns a (units, units, h, w)      *)
(* kernel that is 0 except for a 1 at [i, i, (h-1)/2, (w-1)/2] for every     *)
(* channel i, and an all-zero bias of length units.                          *)
C4_AsStated ==
    (/\ ret.fn = "deeper2net_conv2d"
     /\ Shape4(teacher_w)[3] % 2 = 1
     /\ Shape4(teacher_w)[4] % 2 = 1) =>
        LET units == Shape4(teacher_w)[1]
            kh == Shape4(teacher_w)[3]
            kw == Shape4(teacher_w)[4]
        IN  /\ ret.err = NoError
            /\ ret.student_b = [i \in 1..units |-> Zero]
            /\ ret.student_w =
                  [i \in 1..units |-> [c \in 1..units |-> [y \in 1..kh |-> [x \in 1..kw |->
                      IF i = c /\ y = ((kh - 1) \div 2) + 1 /\ x = ((kw - 1) \div 2) + 1
                      THEN One ELSE Zero]]]]

(* C5 as stated: for a weight whose kernel height or width is even,          *)
(* deeper2net_conv2d fails with UnsupportedKernelGeometry and returns no     *)
(* kernel.                                                                   *)
C5_AsStated ==
    (/\ ret.fn = "deeper2net_conv2d"
     /\ (Shape4(teacher_w)[3] % 2 = 0 \/ Shape4(teacher_w)[4] % 2 = 0)) =>
        /\ ret.err.exc = "UnsupportedKernelGeometry"
        /\ ret.student_w = << >>

----------------------------------------------------------------------------
(* C10: weight copy: after copy_weights(teacher, student, names) every       *)
(* student layer named in names holds the teacher's (weight, bias) of that   *)
(* name, every other student layer (the inserted 'conv2-deeper' and          *)
(* 'fc1-deeper' among them) holds what it held before the call, and no       *)
(* teacher layer has changed.                                                *)
C10_Copied ==
    ret.fn = "copy_weights" =>
        LET named == {ret.layer_names[i] : i \in 1..Len(ret.layer_names)}
        IN  /\ DOMAIN student_model = DOMAIN ret.student_in
            /\ \A l \in DOMAIN student_model :
                  student_model[l] = IF l \in named THEN ret.teacher_in[l]
                                     ELSE ret.student_in[l]
            /\ teacher_model = ret.teacher_in

C10_Witness ==
    /\ ret.fn = "copy_weights"
    /\ ret.layer_names = <<"conv1", "conv2", "fc1", "fc2">>
    /\ ret.student_in = DeeperStudent("net2deeper")
    /\ student_model["conv2-deeper"] = Weights("deeper2net_conv2d", "conv2-deeper")
    /\ student_model["conv2"] = Weights("trained", "conv2")

====
